---- MODULE Spec2Model ----
(***************************************************************************)
(* A model of yaml_lca.py: resolving one or two character offsets of a     *)
(* YAML document to the range of the node, or of the lowest common         *)
(* ancestor node, found in the tree that yaml.compose() builds.            *)
(*                                                                         *)
(* A document is its length and its composed tree.  A tree is a tuple of   *)
(* nodes in pre-order (node 1 is the root); a node records its type, the   *)
(* indexes of its start_mark and end_mark, and its value: the              *)
(* (key, value) pairs of a MappingNode, the items of a SequenceNode, both  *)
(* as node numbers.  The marks are those PyYAML gives the document quoted  *)
(* above each tree.                                                        *)
(***************************************************************************)
EXTENDS Integers, Sequences, FiniteSets, TLC

\* 'a:\n  b: c\nd: e\n'
DocNested ==
  [length |-> 15, nodes |-> <<
     [type |-> "MappingNode", start |-> 0, end |-> 15, value |-> <<<<2, 3>>, <<6, 7>>>>],
     [type |-> "ScalarNode", start |-> 0, end |-> 1, value |-> <<>>],
     [type |-> "MappingNode", start |-> 5, end |-> 10, value |-> <<<<4, 5>>>>],
     [type |-> "ScalarNode", start |-> 5, end |-> 6, value |-> <<>>],
     [type |-> "ScalarNode", start |-> 8, end |-> 9, value |-> <<>>],
     [type |-> "ScalarNode", start |-> 10, end |-> 11, value |-> <<>>],
     [type |-> "ScalarNode", start |-> 13, end |-> 14, value |-> <<>>]
  >>]
\* '- [1, 2]\n- {x: y}\n'
DocFlow ==
  [length |-> 18, nodes |-> <<
     [type |-> "SequenceNode", start |-> 0, end |-> 18, value |-> <<2, 5>>],
     [type |-> "SequenceNode", start |-> 2, end |-> 8, value |-> <<3, 4>>],
     [type |-> "ScalarNode", start |-> 3, end |-> 4, value |-> <<>>],
     [type |-> "ScalarNode", start |-> 6, end |-> 7, value |-> <<>>],
     [type |-> "MappingNode", start |-> 11, end |-> 17, value |-> <<<<6, 7>>>>],
     [type |-> "ScalarNode", start |-> 12, end |-> 13, value |-> <<>>],
     [type |-> "ScalarNode", start |-> 15, end |-> 16, value |-> <<>>]
  >>]
\* 'foo\n'
DocScalar ==
  [length |-> 4, nodes |-> <<
     [type |-> "ScalarNode", start |-> 0, end |-> 3, value |-> <<>>]
  >>]
\* '---\nk: v\nl:\n  - p: q\n    r: s\n  - t: u\n'
DocList ==
  [length |-> 39, nodes |-> <<
     [type |-> "MappingNode", start |-> 4, end |-> 39, value |-> <<<<2, 3>>, <<4, 5>>>>],
     [type |-> "ScalarNode", start |-> 4, end |-> 5, value |-> <<>>],
     [type |-> "ScalarNode", start |-> 7, end |-> 8, value |-> <<>>],
     [type |-> "ScalarNode", start |-> 9, end |-> 10, value |-> <<>>],
     [type |-> "SequenceNode", start |-> 14, end |-> 39, value |-> <<6, 11>>],
     [type |-> "MappingNode", start |-> 16, end |-> 32, value |-> <<<<7, 8>>, <<9, 10>>>>],
     [type |-> "ScalarNode", start |-> 16, end |-> 17, value |-> <<>>],
     [type |-> "ScalarNode", start |-> 19, end |-> 20, value |-> <<>>],
     [type |-> "ScalarNode", start |-> 25, end |-> 26, value |-> <<>>],
     [type |-> "ScalarNode", start |-> 28, end |-> 29, value |-> <<>>],
     [type |-> "MappingNode", start |-> 34, end |-> 39, value |-> <<<<12, 13>>>>],
     [type |-> "ScalarNode", start |-> 34, end |-> 35, value |-> <<>>],
     [type |-> "ScalarNode", start |-> 37, end |-> 38, value |-> <<>>]
  >>]
\* '- a\n-\n- b\n'
DocEmpty ==
  [length |-> 10, nodes |-> <<
     [type |-> "SequenceNode", start |-> 0, end |-> 10, value |-> <<2, 3, 4>>],
     [type |-> "ScalarNode", start |-> 2, end |-> 3, value |-> <<>>],
     [type |-> "ScalarNode", start |-> 5, end |-> 5, value |-> <<>>],
     [type |-> "ScalarNode", start |-> 8, end |-> 9, value |-> <<>>]
  >>]
\* 'k:\n  m:\n    x: 1\n    y: 2\n'
DocDeep ==
  [length |-> 26, nodes |-> <<
     [type |-> "MappingNode", start |-> 0, end |-> 26, value |-> <<<<2, 3>>>>],
     [type |-> "ScalarNode", start |-> 0, end |-> 1, value |-> <<>>],
     [type |-> "MappingNode", start |-> 5, end |-> 26, value |-> <<<<4, 5>>>>],
     [type |-> "ScalarNode", start |-> 5, end |-> 6, value |-> <<>>],
     [type |-> "MappingNode", start |-> 12, end |-> 26, value |-> <<<<6, 7>>, <<8, 9>>>>],
     [type |-> "ScalarNode", start |-> 12, end |-> 13, value |-> <<>>],
     [type |-> "ScalarNode", start |-> 15, end |-> 16, value |-> <<>>],
     [type |-> "ScalarNode", start |-> 21, end |-> 22, value |-> <<>>],
     [type |-> "ScalarNode", start |-> 24, end |-> 25, value |-> <<>>]
  >>]
\* '# c\nkey:  # x\n  - a  # y\n  - bb\n'
DocComment ==
  [length |-> 32, nodes |-> <<
     [type |-> "MappingNode", start |-> 4, end |-> 32, value |-> <<<<2, 3>>>>],
     [type |-> "ScalarNode", start |-> 4, end |-> 7, value |-> <<>>],
     [type |-> "SequenceNode", start |-> 16, end |-> 32, value |-> <<4, 5>>],
     [type |-> "ScalarNode", start |-> 18, end |-> 19, value |-> <<>>],
     [type |-> "ScalarNode", start |-> 29, end |-> 31, value |-> <<>>]
  >>]
\* 'k: |\n  text\nb: c\n'
DocBlock ==
  [length |-> 17, nodes |-> <<
     [type |-> "MappingNode", start |-> 0, end |-> 17, value |-> <<<<2, 3>>, <<4, 5>>>>],
     [type |-> "ScalarNode", start |-> 0, end |-> 1, value |-> <<>>],
     [type |-> "ScalarNode", start |-> 3, end |-> 12, value |-> <<>>],
     [type |-> "ScalarNode", start |-> 12, end |-> 13, value |-> <<>>],
     [type |-> "ScalarNode", start |-> 15, end |-> 16, value |-> <<>>]
  >>]

\* The documents in use are Documents[1] .. Documents[NumDocs].
NumDocs == 7

Documents ==
  <<DocNested, DocFlow, DocScalar, DocList, DocEmpty, DocDeep, DocComment,
    DocBlock>>

Docs == 1..NumDocs

\* end=None of yaml_lca_range, and the None that yaml_lca may return.
None == -1

Root == 1

Node(d, n) == Documents[d].nodes[n]

Nodes(d) == 1..Len(Documents[d].nodes)

DocLen(d) == Documents[d].length

Min(a, b) == IF a < b THEN a ELSE b

Max(a, b) == IF a > b THEN a ELSE b

\* index in range(node.start_mark.index, node.end_mark.index+1)
InRange(d, n, index) == Node(d, n).start <= index /\ index <= Node(d, n).end

\* The result of _yaml_find_node when it returns None.
NoPath == << >>

\* A retry that does not move the index.
SameIndex(search_end, index, search_step) == index

\* The next index of a directional retry, clamped to the search end.
ForwardIndex(search_end, index, search_step) == Min(search_end, index + search_step)

BackwardIndex(search_end, index, search_step) == Max(search_end, index + search_step)

RECURSIVE _yaml_find_node(_, _, _, _, _)
RECURSIVE MappingLoop(_, _, _, _, _, _)
RECURSIVE SequenceLoop(_, _, _, _, _, _)

\* for key, value in node.value: ... from the i-th pair on; NoPath when the
\* loop ends without a return.
MappingLoop(d, node, i, index, search_end, search_step) ==
  IF i > Len(Node(d, node).value) THEN NoPath
  ELSE LET key == Node(d, node).value[i][1]
           value == Node(d, node).value[i][2]
       IN IF InRange(d, key, index) THEN <<key>>
          ELSE IF InRange(d, value, index)
               THEN LET result == _yaml_find_node(d, value, index, search_end, search_step)
                    IN IF result # NoPath THEN result \o <<node>>
                       ELSE MappingLoop(d, node, i + 1, index, search_end, search_step)
               ELSE MappingLoop(d, node, i + 1, index, search_end, search_step)

\* for n in node.value: ... from the i-th item on.
SequenceLoop(d, node, i, index, search_end, search_step) ==
  IF i > Len(Node(d, node).value) THEN NoPath
  ELSE LET n == Node(d, node).value[i]
       IN IF InRange(d, n, index)
          THEN LET result == _yaml_find_node(d, n, index, search_end, search_step)
               IN IF result # NoPath THEN result \o <<n, node>>
                  ELSE SequenceLoop(d, node, i + 1, index, search_end, search_step)
          ELSE SequenceLoop(d, node, i + 1, index, search_end, search_step)

\* The first part of _yaml_find_node: the path found at index itself, or
\* NoPath when control falls through to the directional search.
Contained(d, node, index, search_end, search_step) ==
  IF InRange(d, node, index)
  THEN CASE Node(d, node).type = "MappingNode" ->
              MappingLoop(d, node, 1, index, search_end, search_step)
         [] Node(d, node).type = "SequenceNode" ->
              SequenceLoop(d, node, 1, index, search_end, search_step)
         [] OTHER -> <<node>>
  ELSE NoPath

_yaml_find_node(d, node, index, search_end, search_step) ==
  LET found == Contained(d, node, index, search_end, search_step)
  IN IF found # NoPath THEN found
     ELSE IF search_step > 0
          THEN LET limit == Min(Node(d, node).end, search_end)
               IN IF index < limit
                  THEN _yaml_find_node(d, node, ForwardIndex(limit, index, search_step),
                                       limit, search_step)
                  ELSE NoPath
          ELSE IF search_step < 0
               THEN LET limit == Max(Node(d, node).start, search_end)
                    IN IF index > limit
                       THEN _yaml_find_node(d, node, BackwardIndex(limit, index, search_step),
                                            limit, search_step)
                       ELSE NoPath
               ELSE NoPath

\* path[0] is path[1].value[0][0], for a path of at least two nodes.
IsFirstKey(d, path) ==
  /\ Node(d, path[2]).type = "MappingNode"
  /\ path[1] = Node(d, path[2]).value[1][1]

\* _extend_key raises IndexError on a path of one node: it reads path[1].
ExtendKeyRaises(path) == Len(path) < 2

_extend_key(d, path) == IF IsFirstKey(d, path) THEN Tail(path) ELSE path

\* What a path builder gives: the path, or the exception it raises.
Path(p) == [err |-> "", path |-> p]

Raise(e) == [err |-> e, path |-> NoPath]

\* A path builder that forgets to append the node searched from.
BuildPathNoRoot(d, node, path, extend_keys) ==
  IF path = NoPath THEN Raise("ValueError")
  ELSE IF extend_keys
       THEN IF ExtendKeyRaises(path) THEN Raise("IndexError")
            ELSE Path(_extend_key(d, path))
       ELSE Path(path)

BuildPath(d, node, path, extend_keys) ==
  IF path = NoPath THEN Raise("ValueError")
  ELSE IF extend_keys
       THEN IF ExtendKeyRaises(path) THEN Raise("IndexError")
            ELSE Path(_extend_key(d, path) \o <<node>>)
       ELSE Path(path \o <<node>>)

_yaml_find_node_path_forward(d, node, index, len, extend_keys) ==
  BuildPath(d, node, _yaml_find_node(d, node, index, len, 2), extend_keys)

_yaml_find_node_path_backward(d, node, index, extend_keys) ==
  BuildPath(d, node, _yaml_find_node(d, node, index, 0, -2), extend_keys)

\* What a public function gives: a node, a range, None, or an exception.
Found(d, n) ==
  [kind |-> "node", node |-> n, start |-> Node(d, n).start, end |-> Node(d, n).end]

Other(k) == [kind |-> k, node |-> 0, start |-> 0, end |-> 0]

\* The comparison with the marks forgotten.
SameType(d, node1, node2) == Node(d, node1).type = Node(d, node2).type

\* type(node1) == type(node2) and equal start and end indexes
SameNode(d, node1, node2) ==
  /\ Node(d, node1).type = Node(d, node2).type
  /\ Node(d, node1).start = Node(d, node2).start
  /\ Node(d, node1).end = Node(d, node2).end

\* for node1 in second_path: for node2 in search_path: ... return node1
FirstMatch(d, second_path, search_path) ==
  LET hits == {i \in 1..Len(second_path) :
                 \E j \in 1..Len(search_path) :
                    SameNode(d, second_path[i], search_path[j])}
  IN IF hits = {} THEN Other("None")
     ELSE Found(d, second_path[CHOOSE i \in hits : \A k \in hits : i <= k])

\* search_path: the shorter path, begin_path on a tie.
SearchPath(begin_path, end_path) ==
  IF Len(begin_path) > Len(end_path) THEN end_path ELSE begin_path

SecondPath(begin_path, end_path) ==
  IF Len(begin_path) > Len(end_path) THEN begin_path ELSE end_path

LcaOrdered(d, tree, lo, hi, input_length, extend_keys) ==
  LET begin_path == _yaml_find_node_path_forward(d, tree, lo, input_length, FALSE)
      end_path == _yaml_find_node_path_backward(d, tree, hi, FALSE)
  IN IF begin_path.err # "" THEN Other(begin_path.err)
     ELSE IF end_path.err # "" THEN Other(end_path.err)
     ELSE LET search_path == SearchPath(begin_path.path, end_path.path)
              second_path == SecondPath(begin_path.path, end_path.path)
          IN IF extend_keys
             THEN IF ExtendKeyRaises(search_path) THEN Other("IndexError")
                  ELSE FirstMatch(d, second_path, _extend_key(d, search_path))
             ELSE FirstMatch(d, second_path, search_path)

\* yaml_lca without the swap of begin and end.
LcaUnordered(d, tree, b, e, input_length, extend_keys) ==
  LcaOrdered(d, tree, b, e, input_length, extend_keys)

yaml_lca(d, tree, b, e, input_length, extend_keys) ==
  IF b > e THEN LcaOrdered(d, tree, e, b, input_length, extend_keys)
  ELSE LcaOrdered(d, tree, b, e, input_length, extend_keys)

PathHead(d, p) == IF p.err # "" THEN Other(p.err) ELSE Found(d, p.path[1])

yaml_find_node_forward(d, node, index, len, extend_keys) ==
  PathHead(d, _yaml_find_node_path_forward(d, node, index, len, extend_keys))

yaml_find_node_backward(d, node, index, extend_keys) ==
  PathHead(d, _yaml_find_node_path_backward(d, node, index, extend_keys))

\* lca_node.start_mark.index, lca_node.end_mark.index; reading them off
\* None raises AttributeError.
RangeOf(r) ==
  IF r.kind = "node" THEN [r EXCEPT !.kind = "range"]
  ELSE IF r.kind = "None" THEN Other("AttributeError")
  ELSE r

yaml_lca_range(d, b, e, extend_keys) ==
  IF b = e \/ e = None
  THEN RangeOf(yaml_find_node_forward(d, Root, b, DocLen(d), extend_keys))
  ELSE RangeOf(yaml_lca(d, Root, b, e, DocLen(d), extend_keys))

VARIABLES
  doc,          \* the document
  begin,        \* the first offset (the index, for _yaml_find_node)
  end,          \* the second offset, or None
  extend_keys,  \* the option
  length,       \* the search limit (search_end, for _yaml_find_node)
  called,       \* the function called, "" before the call
  result,       \* what the call gave
  search_step,  \* the search_step of a stepwise run of _yaml_find_node
  stack,        \* its call stack, the innermost call last
  returned,     \* the value its last return gave
  phase         \* "call", "return" or "done"; "" when there is no such run

vars ==
  <<doc, begin, end, extend_keys, length, called, result, search_step, stack,
    returned, phase>>

run == <<search_step, stack, returned, phase>>

Offsets(d) == 0..DocLen(d)

Init ==
  /\ doc \in Docs
  /\ begin \in Offsets(doc)
  /\ end \in Offsets(doc) \cup {None}
  /\ extend_keys \in BOOLEAN
  /\ length = DocLen(doc)
  /\ called = ""
  /\ result = Other("")
  /\ search_step = 0
  /\ stack = << >>
  /\ returned = NoPath
  /\ phase = ""

CallYamlLcaRange ==
  /\ called = ""
  /\ called' = "yaml_lca_range"
  /\ result' = yaml_lca_range(doc, begin, end, extend_keys)
  /\ UNCHANGED <<doc, begin, end, extend_keys, length, run>>

CallYamlLca ==
  /\ called = ""
  /\ end # None
  /\ called' = "yaml_lca"
  /\ result' = yaml_lca(doc, Root, begin, end, DocLen(doc), extend_keys)
  /\ UNCHANGED <<doc, begin, end, extend_keys, length, run>>

CallFindNodeForward ==
  /\ called = ""
  /\ end = None
  /\ \E l \in Offsets(doc) :
       /\ length' = l
       /\ result' = yaml_find_node_forward(doc, Root, begin, l, extend_keys)
  /\ called' = "yaml_find_node_forward"
  /\ UNCHANGED <<doc, begin, end, extend_keys, run>>

CallFindNodeBackward ==
  /\ called = ""
  /\ end = None
  /\ called' = "yaml_find_node_backward"
  /\ result' = yaml_find_node_backward(doc, Root, begin, extend_keys)
  /\ UNCHANGED <<doc, begin, end, extend_keys, length, run>>

Next ==
  \/ CallYamlLcaRange
  \/ CallYamlLca
  \/ CallFindNodeForward
  \/ CallFindNodeBackward

Spec == Init /\ [][Next]_vars

(***************************************************************************)
(* _yaml_find_node, call by call.  A frame of the stack is one call: its   *)
(* node, index and search_end, where it stands (pc) and the position i of  *)
(* its loop over node.value.  A call that returns leaves the stack and     *)
(* hands its value to the call below it.                                   *)
(***************************************************************************)

\* The deepest the stack may grow.
MaxDepth == 48

Frame(node, index, search_end) ==
  [node |-> node, index |-> index, search_end |-> search_end, pc |-> "start", i |-> 1]

Top == stack[Len(stack)]

Caller == SubSeq(stack, 1, Len(stack) - 1)

SetTop(frame) == [stack EXCEPT ![Len(stack)] = frame]

Return(value) ==
  /\ stack' = Caller
  /\ returned' = value
  /\ phase' = "return"

Call(pc, frame) ==
  /\ Len(stack) < MaxDepth
  /\ stack' = Append(SetTop([Top EXCEPT !.pc = pc]), frame)
  /\ phase' = "call"
  /\ UNCHANGED returned

Continue(frame) ==
  /\ stack' = SetTop(frame)
  /\ phase' = "call"
  /\ UNCHANGED returned

FindOffsets(d) == -1..(DocLen(d) + 1)

FindLimits(d) == 0..DocLen(d)

SearchSteps == {-2, 0, 2}

InitFind ==
  /\ doc \in Docs
  /\ begin \in FindOffsets(doc)
  /\ length \in FindLimits(doc)
  /\ search_step \in SearchSteps
  /\ end = None
  /\ extend_keys = FALSE
  /\ called = "_yaml_find_node"
  /\ result = Other("")
  /\ stack = <<Frame(Root, begin, length)>>
  /\ returned = NoPath
  /\ phase = "call"

\* if index in range(...): a scalar returns itself, another node starts its
\* loop; an index out of the range goes to the directional search.
FindEnter ==
  /\ phase = "call"
  /\ Top.pc = "start"
  /\ IF InRange(doc, Top.node, Top.index)
     THEN IF Node(doc, Top.node).type = "ScalarNode"
          THEN Return(<<Top.node>>)
          ELSE Continue([Top EXCEPT !.pc = "loop", !.i = 1])
     ELSE Continue([Top EXCEPT !.pc = "search"])
  /\ UNCHANGED <<doc, begin, end, extend_keys, length, called, result, search_step>>

\* One pass of for key, value in node.value.
FindMappingEntry ==
  /\ phase = "call"
  /\ Top.pc = "loop"
  /\ Node(doc, Top.node).type = "MappingNode"
  /\ IF Top.i > Len(Node(doc, Top.node).value)
     THEN Continue([Top EXCEPT !.pc = "search"])
     ELSE LET key == Node(doc, Top.node).value[Top.i][1]
              value == Node(doc, Top.node).value[Top.i][2]
          IN IF InRange(doc, key, Top.index) THEN Return(<<key>>)
             ELSE IF InRange(doc, value, Top.index)
                  THEN Call("child", Frame(value, Top.index, Top.search_end))
                  ELSE Continue([Top EXCEPT !.i = Top.i + 1])
  /\ UNCHANGED <<doc, begin, end, extend_keys, length, called, result, search_step>>

\* One pass of for n in node.value.
FindSequenceItem ==
  /\ phase = "call"
  /\ Top.pc = "loop"
  /\ Node(doc, Top.node).type = "SequenceNode"
  /\ IF Top.i > Len(Node(doc, Top.node).value)
     THEN Continue([Top EXCEPT !.pc = "search"])
     ELSE LET n == Node(doc, Top.node).value[Top.i]
          IN IF InRange(doc, n, Top.index)
             THEN Call("child", Frame(n, Top.index, Top.search_end))
             ELSE Continue([Top EXCEPT !.i = Top.i + 1])
  /\ UNCHANGED <<doc, begin, end, extend_keys, length, called, result, search_step>>

\* if search_step > 0: ... retry towards min(node.end, search_end), or None.
FindForward ==
  /\ phase = "call"
  /\ Top.pc = "search"
  /\ search_step > 0
  /\ LET limit == Min(Node(doc, Top.node).end, Top.search_end)
     IN IF Top.index < limit
        THEN Call("retry",
                  Frame(Top.node, ForwardIndex(limit, Top.index, search_step), limit))
        ELSE Return(NoPath)
  /\ UNCHANGED <<doc, begin, end, extend_keys, length, called, result, search_step>>

\* elif search_step < 0: ... retry towards max(node.start, search_end), or None.
FindBackward ==
  /\ phase = "call"
  /\ Top.pc = "search"
  /\ search_step < 0
  /\ LET limit == Max(Node(doc, Top.node).start, Top.search_end)
     IN IF Top.index > limit
        THEN Call("retry",
                  Frame(Top.node, BackwardIndex(limit, Top.index, search_step), limit))
        ELSE Return(NoPath)
  /\ UNCHANGED <<doc, begin, end, extend_keys, length, called, result, search_step>>

\* search_step == 0: the function ends without a return statement.
FindNoSearch ==
  /\ phase = "call"
  /\ Top.pc = "search"
  /\ search_step = 0
  /\ Return(NoPath)
  /\ UNCHANGED <<doc, begin, end, extend_keys, length, called, result, search_step>>

\* The caller takes the value of the call it made in its loop: it returns
\* result + [node] (result + [n, node] in a sequence), or goes on with the
\* loop when the value is None.
FindChildReturned ==
  /\ phase = "return"
  /\ stack # << >>
  /\ Top.pc = "child"
  /\ IF returned # NoPath
     THEN Return(returned \o
                 (IF Node(doc, Top.node).type = "SequenceNode"
                  THEN <<Node(doc, Top.node).value[Top.i], Top.node>>
                  ELSE <<Top.node>>))
     ELSE Continue([Top EXCEPT !.pc = "loop", !.i = Top.i + 1])
  /\ UNCHANGED <<doc, begin, end, extend_keys, length, called, result, search_step>>

\* return _yaml_find_node(node, ...): the value of the retry is the value
\* of the call.
FindRetryReturned ==
  /\ phase = "return"
  /\ stack # << >>
  /\ Top.pc = "retry"
  /\ Return(returned)
  /\ UNCHANGED <<doc, begin, end, extend_keys, length, called, result, search_step>>

\* The outermost call has returned.
FindDone ==
  /\ phase = "return"
  /\ stack = << >>
  /\ phase' = "done"
  /\ UNCHANGED <<doc, begin, end, extend_keys, length, called, result, search_step,
                 stack, returned>>

NextFind ==
  \/ FindEnter
  \/ FindMappingEntry
  \/ FindSequenceItem
  \/ FindForward
  \/ FindBackward
  \/ FindNoSearch
  \/ FindChildReturned
  \/ FindRetryReturned
  \/ FindDone

\* The interpreter runs a call to its end: a step that can be taken is taken.
SpecFind == InitFind /\ [][NextFind]_vars /\ WF_vars(NextFind)

(***************************************************************************)
(* What the properties speak of.                                           *)
(***************************************************************************)

Leaves(d) == {n \in Nodes(d) : Node(d, n).type = "ScalarNode"}

Mappings(d) == {n \in Nodes(d) : Node(d, n).type = "MappingNode"}

InLeaf(d, index) == \E n \in Leaves(d) : InRange(d, n, index)

\* The children of a node, as node numbers.
Children(d, n) ==
  CASE Node(d, n).type = "MappingNode" ->
         UNION {{Node(d, n).value[i][1], Node(d, n).value[i][2]} :
                  i \in 1..Len(Node(d, n).value)}
    [] Node(d, n).type = "SequenceNode" ->
         {Node(d, n).value[i] : i \in 1..Len(Node(d, n).value)}
    [] OTHER -> {}

RECURSIVE Depth(_, _)
Depth(d, n) ==
  IF n = Root THEN 0
  ELSE 1 + Depth(d, CHOOSE p \in Nodes(d) : n \in Children(d, p))

\* The deepest node whose range contains both offsets.
Containing(d, a, b) == {n \in Nodes(d) : InRange(d, n, a) /\ InRange(d, n, b)}

Deepest(d, a, b) ==
  CHOOSE n \in Containing(d, a, b) :
    \A m \in Containing(d, a, b) : Depth(d, m) <= Depth(d, n)

Single == end = None \/ begin = end

Lo == Min(begin, end)

Hi == Max(begin, end)

\* The leaf the forward search locates for the lower offset, and the leaf
\* the backward search locates for the higher one.
LoLeaf == yaml_find_node_forward(doc, Root, Lo, DocLen(doc), FALSE)

HiLeaf == yaml_find_node_backward(doc, Root, Hi, FALSE)

\* The paths yaml_lca builds for the ordered offsets.
BeginPath == _yaml_find_node_path_forward(doc, Root, Lo, DocLen(doc), FALSE)

EndPath == _yaml_find_node_path_backward(doc, Root, Hi, FALSE)

Last(path) == path[Len(path)]

\* The leaf a single offset is located at, without key extension.
Located == yaml_find_node_forward(doc, Root, begin, DocLen(doc), FALSE)

IsFirstKeyOfMapping(d, n) == \E m \in Mappings(d) : Node(d, m).value[1][1] = n

\* The leaves that start after an offset, and the first of them.
LeavesAfter(d, index) == {n \in Leaves(d) : Node(d, n).start > index}

FirstAfter(d, index) ==
  CHOOSE n \in LeavesAfter(d, index) :
    \A m \in LeavesAfter(d, index) : Node(d, n).start <= Node(d, m).start

(***************************************************************************)
(* The properties.                                                         *)
(***************************************************************************)

\* C1: for two different offsets that each lie inside a scalar node,
\* yaml_lca (without extend_keys) returns the lowest common ancestor: the deepest node of the tree
\* whose range contains both offsets.
C1_LcaIsDeepest ==
  (/\ called = "yaml_lca"
   /\ ~extend_keys
   /\ begin # end
   /\ InLeaf(doc, begin)
   /\ InLeaf(doc, end))
    => /\ result.kind = "node"
       /\ SameNode(doc, result.node, Deepest(doc, begin, end))

\* C2 as stated: every range yaml_lca_range returns contains the offset, or
\* both offsets, it was given, wherever the offsets lie.
C2_ContainmentAnywhere ==
  (called = "yaml_lca_range" /\ result.kind = "range")
    => IF Single
       THEN result.start <= begin /\ begin <= result.end
       ELSE result.start <= Lo /\ Hi <= result.end

\* C2 as amended: a range that yaml_lca_range returns contains the single
\* offset when that offset lies inside a leaf, and contains both offsets when
\* the lower one lies inside the leaf the forward search locates for it and
\* the higher one inside the leaf the backward search locates for it.
C2_ContainmentOfLocated ==
  (called = "yaml_lca_range" /\ result.kind = "range")
    => IF Single
       THEN InLeaf(doc, begin) => result.start <= begin /\ begin <= result.end
       ELSE (/\ LoLeaf.kind = "node"
             /\ HiLeaf.kind = "node"
             /\ InRange(doc, LoLeaf.node, Lo)
             /\ InRange(doc, HiLeaf.node, Hi))
              => result.start <= Lo /\ Hi <= result.end

\* C2, its case: two offsets in two different leaves, resolved to a node that starts
\* before the lower one.
C2_Witness ==
  /\ called = "yaml_lca_range"
  /\ result.kind = "range"
  /\ ~Single
  /\ LoLeaf.kind = "node"
  /\ HiLeaf.kind = "node"
  /\ InRange(doc, LoLeaf.node, Lo)
  /\ InRange(doc, HiLeaf.node, Hi)
  /\ LoLeaf.node # HiLeaf.node
  /\ result.start < Lo

\* C3: given the exact start and end of any node of the tree,
\* yaml_lca_range (without extend_keys) returns exactly that start and end.
C3_NodeBoundaries ==
  (/\ called = "yaml_lca_range"
   /\ ~extend_keys
   /\ \E n \in Nodes(doc) : Node(doc, n).start = begin /\ Node(doc, n).end = end)
    => /\ result.kind = "range"
       /\ result.start = begin
       /\ result.end = end

\* C4: for a single offset inside the text of any mapping key,
\* yaml_lca_range returns the key's own range without extend_keys, and with
\* extend_keys a range that contains the key and its value.
C4_KeyExtension ==
  (called = "yaml_lca_range" /\ end = None)
    => \A m \in Mappings(doc) :
         \A i \in 1..Len(Node(doc, m).value) :
           LET key == Node(doc, Node(doc, m).value[i][1])
               value == Node(doc, Node(doc, m).value[i][2])
           IN (key.start <= begin /\ begin <= key.end)
                => /\ result.kind = "range"
                   /\ IF extend_keys
                      THEN result.start <= key.start /\ value.end <= result.end
                      ELSE result.start = key.start /\ result.end = key.end

\* C5: for a single offset inside a leaf that is not the key of the first
\* entry of a mapping, yaml_lca_range with extend_keys completes and returns
\* the range it returns without extend_keys.
C5_ExtensionNotApplicable ==
  (/\ called = "yaml_lca_range"
   /\ end = None
   /\ extend_keys
   /\ InLeaf(doc, begin)
   /\ Located.kind = "node"
   /\ ~IsFirstKeyOfMapping(doc, Located.node))
    => /\ result.kind = "range"
       /\ result = yaml_lca_range(doc, begin, None, FALSE)

\* C6: yaml_lca_range(doc, a, b) and yaml_lca_range(doc, b, a) have the same
\* outcome: the same range, or the same error.
C6_OrderIndependence ==
  (called = "yaml_lca_range" /\ end # None)
    => result = yaml_lca_range(doc, end, begin, extend_keys)

\* C6, its case: two offsets given in descending order, resolved to a range.
C6_Witness ==
  /\ called = "yaml_lca_range"
  /\ end # None
  /\ begin > end
  /\ result.kind = "range"

\* C7: for an offset in no leaf, the forward search with limit length
\* returns the first leaf that starts after the offset when that leaf starts
\* at or before the limit, and raises ValueError otherwise.
C7_ForwardFindsNext ==
  (called = "yaml_find_node_forward" /\ ~extend_keys /\ ~InLeaf(doc, begin))
    => IF /\ LeavesAfter(doc, begin) # {}
          /\ Node(doc, FirstAfter(doc, begin)).start <= length
       THEN result.kind = "node" /\ result.node = FirstAfter(doc, begin)
       ELSE result.kind = "ValueError"

\* C8: when a pair of offsets encloses another pair and both resolve, the
\* range of the enclosing pair contains the range of the enclosed pair.
C8_MonotonicWidening ==
  (called = "yaml_lca_range" /\ end # None /\ begin <= end /\ result.kind = "range")
    => \A b \in 0..begin :
         \A e \in end..DocLen(doc) :
           LET wider == yaml_lca_range(doc, b, e, extend_keys)
           IN wider.kind = "range"
                => wider.start <= result.start /\ result.end <= wider.end

\* C8 for offsets inside leaves only, where no directional search from a
\* gap is involved.
C8_WideningInsideLeaves ==
  (/\ called = "yaml_lca_range"
   /\ ~extend_keys
   /\ end # None
   /\ begin < end
   /\ InLeaf(doc, begin)
   /\ InLeaf(doc, end)
   /\ result.kind = "range")
    => \A b \in 0..begin :
         \A e \in end..DocLen(doc) :
           LET wider == yaml_lca_range(doc, b, e, extend_keys)
           IN (InLeaf(doc, b) /\ InLeaf(doc, e) /\ wider.kind = "range")
                => wider.start <= result.start /\ result.end <= wider.end

\* C9: when both paths of yaml_lca are built without error, the root is the
\* last node of both, also after key extension of the search path, and
\* yaml_lca returns a node, never None.
C9_RootAlwaysShared ==
  (called = "yaml_lca" /\ BeginPath.err = "" /\ EndPath.err = "")
    => /\ Last(BeginPath.path) = Root
       /\ Last(EndPath.path) = Root
       /\ extend_keys =>
            /\ ~ExtendKeyRaises(SearchPath(BeginPath.path, EndPath.path))
            /\ Last(_extend_key(doc, SearchPath(BeginPath.path, EndPath.path))) = Root
       /\ result.kind = "node"

\* C9, its case: key extension drops the key from a search path of the key and the root,
\* and yaml_lca returns the root.
C9_Witness ==
  /\ called = "yaml_lca"
  /\ extend_keys
  /\ BeginPath.err = ""
  /\ EndPath.err = ""
  /\ IsFirstKey(doc, SearchPath(BeginPath.path, EndPath.path))
  /\ Len(_extend_key(doc, SearchPath(BeginPath.path, EndPath.path))) = 1
  /\ result.kind = "node"
  /\ result.node = Root

\* Every call on the stack above a retry is on the same node with its index
\* strictly nearer the clamped search end, and every call above a call made
\* in a loop is on a child of that node.
StackProgress ==
  \A k \in 1..(Len(stack) - 1) :
    LET f == stack[k]
        g == stack[k + 1]
    IN /\ f.pc = "retry" =>
            /\ g.node = f.node
            /\ search_step > 0 =>
                 /\ g.search_end = Min(Node(doc, f.node).end, f.search_end)
                 /\ f.index < g.index
                 /\ g.index <= g.search_end
            /\ search_step < 0 =>
                 /\ g.search_end = Max(Node(doc, f.node).start, f.search_end)
                 /\ g.index < f.index
                 /\ g.search_end <= g.index
       /\ f.pc = "child" => g.node \in Children(doc, f.node) /\ g.index = f.index

\* C10: _yaml_find_node terminates for every tree, offset, search limit and
\* search_step in {-2, 0, 2}: every retry moves the index strictly towards
\* the clamped search end, every descent goes to a child, and every call
\* ends with a path or with None.
C10_Terminates ==
  /\ [](phase # "" => StackProgress)
  /\ <>(phase = "done" /\ stack = << >>)

\* C10, its case: a forward search from outside every leaf that ends with a
\* path.
C10_Witness ==
  /\ phase = "done"
  /\ search_step = 2
  /\ ~InLeaf(doc, begin)
  /\ returned # NoPath

\* The stepwise run gives what _yaml_find_node gives.
StepwiseAgrees ==
  phase = "done" => returned = _yaml_find_node(doc, Root, begin, length, search_step)

====
